---- MODULE Spec2Model ----
(***************************************************************************)
(* GitHubAnalyzer (src/src/code_agent/github_analyze.py): one analyze()    *)
(* call over a workspace directory, with the external collaborators (git,  *)
(* the code2prompt renderer, the filesystem) as nondeterministic           *)
(* environments.                                                           *)
(*                                                                         *)
(* Paths are sequences of names relative to the workspace (pathlib parts). *)
(* File contents are sequences of byte tokens: "CR" and "LF" are the       *)
(* newline bytes, "xFF" is a byte that is not valid UTF-8, any other token *)
(* is a run of ordinary text.                                              *)
(* Path.rglob and os.scandir give no order, so the two lists find_files    *)
(* returns are bags and the loop of generate_file_prompts takes the        *)
(* remaining elements in any order.                                        *)
(* find_files anchors every path under temp_dir, so within analyze() the   *)
(* key of a file is always its path relative to temp_dir (the ValueError   *)
(* branch of lines 110-111 is not reached).                                *)
(***************************************************************************)
EXTENDS Integers, Sequences, FiniteSets, Bags, TLC

VARIABLES repo, repo_url, ws_exists, files, dirs, pc, phase, exc, result,
          code_files, doc_files, todo, prompts, code_prompts, doc_prompts,
          log, calls, rm, snap, hist, faults

\* repo          the remote repository git copies (line 36)
\* repo_url      self.repo_url (line 19)
\* ws_exists     whether the directory self.temp_dir exists (lines 20, 216)
\* files, dirs   the files (path -> content) and directories under temp_dir
\* pc, phase     the position of analyze() (lines 192-217) and which of its two
\*               generate_file_prompts calls is next or running
\* exc           the exception on its way out of analyze(), or "None"
\* result        the dictionary analyze() returns (lines 207-213)
\* code_files, doc_files           the lists find_files returned (line 197)
\* todo, prompts                   the rest of the loop of generate_file_prompts
\*                                 and its dictionary (lines 103-104)
\* code_prompts, doc_prompts       the two dictionaries in analyze() (200-201)
\* log           what self.logger was given
\* calls         how often analyze() has called each operation
\* rm            how the cleanup of the finally clause ended (lines 216-217)
\* snap, hist    of the running or last generate_file_prompts call: the files
\*               at its entry, and how the tool and the file operations behaved
\*               for each file processed
\* faults        the operating-system faults so far
vars == <<repo, repo_url, ws_exists, files, dirs, pc, phase, exc, result,
          code_files, doc_files, todo, prompts, code_prompts, doc_prompts,
          log, calls, rm, snap, hist, faults>>

(***************************************************************************)
(* Bounds of the model.                                                    *)
(***************************************************************************)
\* files in the working tree of the remote repository
MaxFiles == 2
\* depth of the chain of empty directories dist, dist/sub, ...
MaxEmptyDepth == 1
\* operating-system faults injected in one run
MaxFaults == 1

(***************************************************************************)
(* Strings (str.endswith, str.startswith, the `in` substring test).        *)
(***************************************************************************)
EndsWith(s, suffix) ==
    /\ Len(s) >= Len(suffix)
    /\ SubSeq(s, Len(s) - Len(suffix) + 1, Len(s)) = suffix

StartsWith(s, prefix) ==
    /\ Len(s) >= Len(prefix)
    /\ SubSeq(s, 1, Len(prefix)) = prefix

Contains(s, sub) ==
    \E i \in 1..(Len(s) - Len(sub) + 1) : SubSeq(s, i, i + Len(sub) - 1) = sub

(***************************************************************************)
(* Paths.                                                                  *)
(***************************************************************************)
temp_dir == "/tmp/tmpk3w9"

Root == <<>>

Name(p) == p[Len(p)]

Parent(p) == SubSeq(p, 1, Len(p) - 1)

\* the directories above p, the workspace root excluded
Ancestors(p) == {SubSeq(p, 1, i) : i \in 1..(Len(p) - 1)}

RECURSIVE Join(_)
\* str(relative_key): the parts joined by "/"
Join(p) ==
    IF Len(p) = 0 THEN ""
    ELSE IF Len(p) = 1 THEN p[1]
    ELSE p[1] \o "/" \o Join(Tail(p))

\* str(Path(self.temp_dir) / relative_path)
AbsStr(p) == IF p = Root THEN temp_dir ELSE temp_dir \o "/" \o Join(p)

\* Path(self.temp_dir) / f"{relative_key}.prompt.txt"
OutputFile(p) == [p EXCEPT ![Len(p)] = p[Len(p)] \o ".prompt.txt"]

Put(f, k, v) == [x \in DOMAIN f \cup {k} |-> IF x = k THEN v ELSE f[x]]

Del(f, k) == [x \in DOMAIN f \ {k} |-> f[x]]

NoFiles == [p \in {} |-> <<>>]

(***************************************************************************)
(* File contents and their decoding (open(..., 'r', encoding='utf-8')).    *)
(***************************************************************************)
\* f.read() raises UnicodeDecodeError on a byte that is not UTF-8
Decodable(c) == \A i \in 1..Len(c) : c[i] # "xFF"

RECURSIVE ReadText(_)
\* text mode reads with universal newlines: "\r\n" and "\r" become "\n"
ReadText(c) ==
    IF Len(c) = 0 THEN <<>>
    ELSE IF c[1] = "CR" /\ Len(c) >= 2 /\ c[2] = "LF"
         THEN <<"LF">> \o ReadText(SubSeq(c, 3, Len(c)))
    ELSE IF c[1] = "CR" THEN <<"LF">> \o ReadText(Tail(c))
    ELSE <<c[1]>> \o ReadText(Tail(c))

(***************************************************************************)
(* The remote repository: the environment's part of the initial state.     *)
(***************************************************************************)
RepoContent ==
    (<<"src", "main.py">> :> <<"print(1)">>)
    @@ (<<"src", "binary.py">> :> <<"x = 1">>)
    @@ (<<"src", "blob.py">> :> <<"xFF">>)
    @@ (<<"LICENSE">> :> <<"MIT", "CR", "LF">>)
    @@ (<<"LICENSE.prompt.txt">> :> <<"notes">>)
    @@ (<<"docs", "pkg.py.gz">> :> <<"xFF">>)
    @@ (<<"src", "pkg", ".keep">> :> <<>>)

\* the chain dist, dist/sub, dist/sub/sub, ... of k empty directories
EmptyChain(k) == {[i \in 1..n |-> IF i = 1 THEN "dist" ELSE "sub"] : n \in 1..k}

Repos ==
    {[files |-> [p \in S |-> RepoContent[p]], dirs |-> EmptyChain(k)] :
        S \in {T \in SUBSET DOMAIN RepoContent : Cardinality(T) <= MaxFiles},
        k \in 0..MaxEmptyDepth}

\* a repository URL with a recognized scheme, and one without
Urls == {"https://github.com/username/repo", "username/repo"}

\* git's own directory, which every clone holds
GitFiles == <<".git", "HEAD">> :> <<"ref: refs/heads/main", "LF">>

(***************************************************************************)
(* __init__                                                                *)
(***************************************************************************)
Entry(level, msg, arg) == [level |-> level, msg |-> msg, arg |-> arg]

ValidUrl(url) ==
    \E scheme \in {"http://", "https://", "git://"} : StartsWith(url, scheme)

Ops == {"clone", "find", "render", "tree"}

NoResult == [returned |-> FALSE, filetree |-> <<>>, doc |-> <<>>, code |-> <<>>]

Start(repos) ==
    /\ repo \in repos
    /\ repo_url \in Urls
    \* tempfile.mkdtemp() creates the directory; a caller-supplied temp_dir
    \* may or may not exist yet
    /\ ws_exists \in BOOLEAN
    /\ files = NoFiles
    /\ dirs = {}
    /\ pc = "clone"
    /\ phase = "none"
    /\ exc = "None"
    /\ result = NoResult
    /\ code_files = EmptyBag
    /\ doc_files = EmptyBag
    /\ todo = EmptyBag
    /\ prompts = <<>>
    /\ code_prompts = <<>>
    /\ doc_prompts = <<>>
    /\ log = IF ValidUrl(repo_url) THEN {}
             ELSE {Entry("warning", "may not be in a valid format", repo_url)}
    /\ calls = [op \in Ops |-> 0]
    /\ rm = "none"
    /\ snap = NoFiles
    /\ hist = <<>>
    /\ faults = 0

Init == Start(Repos)

\* the workspace of the specification's scenario: src/main.py, README.md,
\* logo.png and the empty directory dist/
ScenarioRepo ==
    [files |-> (<<"src", "main.py">> :> <<"print(1)">>)
               @@ (<<"README.md">> :> <<"# Title">>)
               @@ (<<"logo.png">> :> <<"xFF">>),
     dirs |-> {<<"dist">>}]

InitScenario == Start({ScenarioRepo})

(***************************************************************************)
(* clone_repository                                                        *)
(***************************************************************************)
\* git exits 0: the working tree and .git are in the workspace
CloneOk ==
    /\ files' = repo.files @@ GitFiles
    /\ dirs' = repo.dirs \cup UNION {Ancestors(p) : p \in DOMAIN (repo.files @@ GitFiles)}
    /\ ws_exists' = TRUE
    /\ pc' = "find"
    /\ UNCHANGED <<exc, log>>

\* CloneFail with the `raise` of the except clauses missing: the error is
\* logged and analyze() goes on with the path
CloneFailSwallowed(e, left) ==
    /\ log' = log \cup {Entry("error",
                              IF e = "CalledProcessError" THEN "Git clone failed"
                              ELSE "Failed to clone repository", repo_url)}
    /\ ws_exists' = (ws_exists \/ left)
    /\ pc' = "find"
    /\ UNCHANGED <<exc, files, dirs>>

\* subprocess.run raises (check=True on a non-zero exit, or git is missing):
\* logged and raised again; git may leave a directory it created behind
CloneFail(e, left) ==
    /\ exc' = e
    /\ log' = log \cup {Entry("error",
                              IF e = "CalledProcessError" THEN "Git clone failed"
                              ELSE "Failed to clone repository", repo_url)}
    /\ ws_exists' = (ws_exists \/ left)
    /\ pc' = "finally"
    /\ UNCHANGED <<files, dirs>>

clone_repository ==
    /\ pc = "clone"
    /\ calls' = [calls EXCEPT !["clone"] = @ + 1]
    /\ \/ CloneOk
       \/ \E e \in {"CalledProcessError", "FileNotFoundError"}, left \in BOOLEAN :
              CloneFail(e, left)
    /\ UNCHANGED <<repo, repo_url, phase, result, code_files, doc_files, todo,
                   prompts, code_prompts, doc_prompts, rm, snap, hist, faults>>

(***************************************************************************)
(* find_files                                                              *)
(***************************************************************************)
doc_patterns == {".md", ".rst", ".txt", "LICENSE", "CONTRIBUTING", "CODE_OF_CONDUCT"}

code_patterns == {".py", ".js", ".java", ".cpp", ".go", ".rs", ".swift", ".kt", ".cs", ".toml"}

binary_patterns == {".pdf", ".png", ".jpg", ".jpeg", ".gif", ".zip", ".tar", ".gz"}

\* any(file_path.name.endswith(ext) for ext in binary_patterns)
IsBinaryName(name) == \E ext \in binary_patterns : EndsWith(name, ext)

\* any(file_path.name.endswith(ext) for ext in code_patterns)
IsCodeName(name) == \E ext \in code_patterns : EndsWith(name, ext)

\* IsDocName with the endswith test missing: only the exact names match
IsDocNameExactOnly(name) == \E n \in doc_patterns : name = n

\* any(file_path.name.endswith(ext) or file_path.name == name
\*     for ext in doc_patterns for name in doc_patterns)
IsDocName(name) ==
    \E ext \in doc_patterns, n \in doc_patterns : EndsWith(name, ext) \/ name = n

\* the body of the loop over path.rglob('*') for one entry
ClassifyEntry(p, fs, acc) ==
    IF p \notin DOMAIN fs THEN acc                   \* not file_path.is_file()
    ELSE IF IsBinaryName(Name(p)) THEN acc           \* continue
    ELSE IF IsCodeName(Name(p))
         THEN [acc EXCEPT !.code = @ (+) SetToBag({p})]
    ELSE IF IsDocName(Name(p))
         THEN [acc EXCEPT !.doc = @ (+) SetToBag({p})]
    ELSE acc

RECURSIVE ClassifyAll(_, _, _)
\* rglob yields every entry under the root once, in no particular order
ClassifyAll(entries, fs, acc) ==
    IF entries = {} THEN acc
    ELSE LET p == CHOOSE x \in entries : TRUE
         IN ClassifyAll(entries \ {p}, fs, ClassifyEntry(p, fs, acc))

find_files ==
    /\ pc = "find"
    /\ calls' = [calls EXCEPT !["find"] = @ + 1]
    /\ \/ LET found == ClassifyAll(DOMAIN files \cup dirs, files,
                                   [code |-> EmptyBag, doc |-> EmptyBag])
          IN /\ code_files' = found.code
             /\ doc_files' = found.doc
             /\ phase' = "code"
             /\ pc' = "render"
             /\ UNCHANGED <<exc, log, faults>>
       \* the traversal raises (a directory that cannot be read): logged and
       \* raised again, the partial lists are dropped
       \/ /\ faults < MaxFaults
          /\ faults' = faults + 1
          /\ exc' = "PermissionError"
          /\ log' = log \cup {Entry("error", "Error finding files", temp_dir)}
          /\ pc' = "finally"
          /\ UNCHANGED <<code_files, doc_files, phase>>
    /\ UNCHANGED <<repo, repo_url, ws_exists, files, dirs, result, todo, prompts,
                   code_prompts, doc_prompts, rm, snap, hist>>

(***************************************************************************)
(* generate_file_prompts                                                   *)
(***************************************************************************)
\* what code2prompt may leave in its output file
ToolOutputs == {<<"rendered", "CR", "LF">>, <<"xFF">>}

\* what a run that exits non-zero may leave there (it is never read)
PartialOutput == <<"xFF">>

\* result.stdout of a run that wrote no output file
Stdout == <<"stdout">>

\* One invocation's environment: how subprocess.run(['code2prompt', ...]) ends
\* ("notfound": FileNotFoundError, "exit0", "nonzero": CalledProcessError,
\* "oserror": the executable cannot be run), whether the tool wrote its output
\* file, and the faults of the raw read and of the unlink.
Envs ==
    {e \in [tool : {"notfound", "exit0", "nonzero", "oserror"},
            wrote : BOOLEAN,
            out : ToolOutputs \cup {<<>>},
            readfault : BOOLEAN,
            unlinkfault : BOOLEAN] :
        /\ e.wrote => (e.tool \in {"exit0", "nonzero"} /\ e.out \in ToolOutputs)
        /\ (e.wrote /\ e.tool = "nonzero") => e.out = PartialOutput
        /\ ~e.wrote => e.out = <<>>
        /\ e.readfault => e.tool = "notfound"}

EnvFaults(e) ==
    (IF e.readfault THEN 1 ELSE 0) + (IF e.unlinkfault THEN 1 ELSE 0)
    + (IF e.tool = "oserror" THEN 1 ELSE 0)

\* str(e) of the exceptions the try block can raise for file f
ErrorText(kind, f) ==
    CASE kind = "CalledProcessError" ->
           "Command '['code2prompt', '" \o AbsStr(f) \o "', '--output="
           \o AbsStr(OutputFile(f)) \o "']' returned non-zero exit status 1."
      [] kind = "FileNotFoundError" ->
           "[Errno 2] No such file or directory: '" \o AbsStr(f) \o "'"
      [] kind = "PermissionError" ->
           "[Errno 13] Permission denied: '" \o AbsStr(f) \o "'"
      [] kind = "OSError" ->
           "[Errno 13] Permission denied: 'code2prompt'"
      [] kind = "UnicodeDecodeError" ->
           "'utf-8' codec can't decode byte 0xff in position 0: invalid start byte"

Stored(value, entry) == [raised |-> "none", has |-> TRUE, value |-> value, log |-> {entry}]

Skipped(entry) == [raised |-> "none", has |-> FALSE, value |-> <<>>, log |-> {entry}]

Raised(kind, entries) == [raised |-> kind, has |-> FALSE, value |-> <<>>, log |-> entries]

\* TryRender without the `except UnicodeDecodeError` around the raw read: the
\* decoding error reaches the outer handler
TryRenderNoSkip(fs, f, e) ==
    LET key == Join(f)
        out == OutputFile(f)
        notfound == Entry("info", "code2prompt not found, reading raw content", key)
    IN CASE e.tool = "exit0" ->
              IF out \in DOMAIN fs
              THEN IF Decodable(fs[out])
                   THEN Stored(ReadText(fs[out]),
                               Entry("info", "Successfully generated prompt using code2prompt", key))
                   ELSE Raised("UnicodeDecodeError", {})
              ELSE Stored(Stdout, Entry("warning", "Output file not found, using command output", key))
         [] e.tool = "nonzero" -> Raised("CalledProcessError", {})
         [] e.tool = "oserror" -> Raised("OSError", {})
         [] e.tool = "notfound" ->
              IF f \notin DOMAIN fs THEN Raised("FileNotFoundError", {notfound})
              ELSE IF e.readfault THEN Raised("PermissionError", {notfound})
              ELSE IF Decodable(fs[f])
                   THEN [Stored(ReadText(fs[f]),
                                Entry("info", "Successfully read raw content", key))
                         EXCEPT !.log = @ \cup {notfound}]
              ELSE Raised("UnicodeDecodeError", {notfound})

\* the inner try with its `except FileNotFoundError` handler
TryRender(fs, f, e) ==
    LET key == Join(f)
        out == OutputFile(f)
        notfound == Entry("info", "code2prompt not found, reading raw content", key)
    IN CASE e.tool = "exit0" ->
              IF out \in DOMAIN fs
              THEN IF Decodable(fs[out])
                   THEN Stored(ReadText(fs[out]),
                               Entry("info", "Successfully generated prompt using code2prompt", key))
                   ELSE Raised("UnicodeDecodeError", {})
              ELSE Stored(Stdout, Entry("warning", "Output file not found, using command output", key))
         [] e.tool = "nonzero" -> Raised("CalledProcessError", {})
         [] e.tool = "oserror" -> Raised("OSError", {})
         [] e.tool = "notfound" ->
              IF f \notin DOMAIN fs THEN Raised("FileNotFoundError", {notfound})
              ELSE IF e.readfault THEN Raised("PermissionError", {notfound})
              ELSE IF Decodable(fs[f])
                   THEN [Stored(ReadText(fs[f]),
                                Entry("info", "Successfully read raw content", key))
                         EXCEPT !.log = @ \cup {notfound}]
              ELSE [Skipped(Entry("warning", "Could not read as text file, skipping", key))
                    EXCEPT !.log = @ \cup {notfound}]

\* the `except Exception` handler of the outer try
HandleError(r, f) ==
    IF r.raised = "none" THEN r
    ELSE LET text == ErrorText(r.raised, f)
             logged == r.log \cup {Entry("error", "Error processing", Join(f))}
         IN IF ~\E marker \in {"binary", "UnicodeDecodeError"} : Contains(text, marker)
            THEN [raised |-> "none", has |-> TRUE,
                  value |-> <<"Error processing file: " \o text>>, log |-> logged]
            ELSE [raised |-> "none", has |-> FALSE, value |-> <<>>, log |-> logged]

\* CleanOutput with the finally block missing: the output file is left behind
CleanOutputNever(fs, f, e) == [fs |-> fs, log |-> {}]

\* the `finally` block: the output file is unlinked if it exists
CleanOutput(fs, f, e) ==
    LET out == OutputFile(f)
    IN IF out \in DOMAIN fs
       THEN IF e.unlinkfault
            THEN [fs |-> fs,
                  log |-> {Entry("warning", "Failed to clean up temporary file", Join(f))}]
            ELSE [fs |-> Del(fs, out), log |-> {}]
       ELSE [fs |-> fs, log |-> {}]

\* one iteration of the loop, for file f on filesystem fs under environment e
RenderFile(fs, f, e) ==
    LET fs1 == IF e.wrote THEN Put(fs, OutputFile(f), e.out) ELSE fs
        r == HandleError(TryRender(fs1, f, e), f)
        c == CleanOutput(fs1, f, e)
    IN [has |-> r.has, value |-> r.value, fs |-> c.fs, log |-> r.log \cup c.log]

\* the faults an environment names can happen on this filesystem
EnvApplies(fs, f, e) ==
    /\ e.readfault => f \in DOMAIN fs
    /\ e.unlinkfault => (e.wrote \/ OutputFile(f) \in DOMAIN fs)

\* entry: prompts = {} and the loop starts over file_paths
generate_file_prompts_call ==
    /\ pc = "render"
    /\ calls' = [calls EXCEPT !["render"] = @ + 1]
    /\ todo' = (IF phase = "code" THEN code_files ELSE doc_files)
    /\ prompts' = <<>>
    /\ snap' = files
    /\ hist' = <<>>
    /\ pc' = "loop"
    /\ UNCHANGED <<repo, repo_url, ws_exists, files, dirs, phase, exc, result,
                   code_files, doc_files, code_prompts, doc_prompts, log, rm, faults>>

generate_file_prompts_file ==
    /\ pc = "loop"
    /\ \E f \in BagToSet(todo), e \in Envs :
          /\ EnvApplies(files, f, e)
          /\ faults + EnvFaults(e) <= MaxFaults
          /\ LET r == RenderFile(files, f, e)
             IN /\ prompts' = (IF r.has THEN Put(prompts, Join(f), r.value) ELSE prompts)
                /\ files' = r.fs
                /\ log' = log \cup r.log
          \* output_file.parent.mkdir(parents=True, exist_ok=True)
          /\ dirs' = dirs \cup Ancestors(OutputFile(f))
          /\ todo' = todo (-) SetToBag({f})
          /\ hist' = Put(hist, f, e)
          /\ faults' = faults + EnvFaults(e)
    /\ UNCHANGED <<repo, repo_url, ws_exists, pc, phase, exc, result, code_files,
                   doc_files, code_prompts, doc_prompts, calls, rm, snap>>

\* return prompts, to analyze()
generate_file_prompts_return ==
    /\ pc = "loop"
    /\ todo = EmptyBag
    /\ \/ /\ phase = "code"
          /\ code_prompts' = prompts
          /\ phase' = "doc"
          /\ pc' = "render"
          /\ UNCHANGED doc_prompts
       \/ /\ phase = "doc"
          /\ doc_prompts' = prompts
          /\ phase' = "tree"
          /\ pc' = "tree"
          /\ UNCHANGED code_prompts
    /\ UNCHANGED <<repo, repo_url, ws_exists, files, dirs, exc, result, code_files,
                   doc_files, todo, prompts, log, calls, rm, snap, hist, faults>>

(***************************************************************************)
(* generate_file_tree                                                      *)
(***************************************************************************)
\* a tree maps a name to the path string of a file or to the tree of a directory
FileNode(path) == [kind |-> "file", path |-> path, tree |-> <<>>]

DirNode(tree) == [kind |-> "dir", path |-> "", tree |-> tree]

\* the names path.iterdir() yields for directory d
Children(d, fs, ds) ==
    {p[Len(d) + 1] : p \in {q \in DOMAIN fs \cup ds : Parent(q) = d}}

RECURSIVE build_tree_keep_empty(_, _, _, _)
\* build_tree without the `if subtree:` test
build_tree_keep_empty(d, fs, ds, bad) ==
    IF d \in bad THEN <<>>
    ELSE LET names == {n \in Children(d, fs, ds) : ~StartsWith(n, ".")}
             sub(n) == build_tree_keep_empty(d \o <<n>>, fs, ds, bad)
         IN [n \in names |->
                IF (d \o <<n>>) \in DOMAIN fs THEN FileNode(AbsStr(d \o <<n>>))
                ELSE DirNode(sub(n))]

RECURSIVE build_tree_with_hidden(_, _, _, _)
\* build_tree without the test for names that start with "."
build_tree_with_hidden(d, fs, ds, bad) ==
    IF d \in bad THEN <<>>
    ELSE LET names == Children(d, fs, ds)
             sub(n) == build_tree_with_hidden(d \o <<n>>, fs, ds, bad)
             kept == {n \in names :
                         \/ (d \o <<n>>) \in DOMAIN fs
                         \/ /\ (d \o <<n>>) \in ds
                            /\ sub(n) # <<>>}
         IN [n \in kept |->
                IF (d \o <<n>>) \in DOMAIN fs THEN FileNode(AbsStr(d \o <<n>>))
                ELSE DirNode(sub(n))]

RECURSIVE build_tree(_, _, _, _)
\* _build_tree(path); for the directories in bad, path.iterdir() raises when
\* the directory is opened (the case of a directory that may not be read),
\* and the except clause then returns the tree built so far, which is empty
build_tree(d, fs, ds, bad) ==
    IF d \in bad THEN <<>>
    ELSE LET names == {n \in Children(d, fs, ds) : ~StartsWith(n, ".")}
             sub(n) == build_tree(d \o <<n>>, fs, ds, bad)
             kept == {n \in names :
                         \/ (d \o <<n>>) \in DOMAIN fs            \* item.is_file()
                         \/ /\ (d \o <<n>>) \in ds                \* item.is_dir()
                            /\ sub(n) # <<>>}                     \* if subtree:
         IN [n \in kept |->
                IF (d \o <<n>>) \in DOMAIN fs THEN FileNode(AbsStr(d \o <<n>>))
                ELSE DirNode(sub(n))]

\* lines 204-213 of analyze(): the tree is built, the result is assembled
generate_file_tree ==
    /\ pc = "tree"
    /\ calls' = [calls EXCEPT !["tree"] = @ + 1]
    /\ \E bad \in SUBSET (dirs \cup {Root}) :
          /\ faults + Cardinality(bad) <= MaxFaults
          /\ faults' = faults + Cardinality(bad)
          /\ log' = log \cup {Entry("error", "Error building tree", AbsStr(d)) : d \in bad}
          /\ result' = [returned |-> TRUE,
                        filetree |-> build_tree(Root, files, dirs, bad),
                        doc |-> doc_prompts,
                        code |-> code_prompts]
    /\ pc' = "finally"
    /\ UNCHANGED <<repo, repo_url, ws_exists, files, dirs, phase, exc, code_files,
                   doc_files, todo, prompts, code_prompts, doc_prompts, rm, snap, hist>>

(***************************************************************************)
(* analyze(): the finally clause                                           *)
(***************************************************************************)
\* Cleanup placed after the return statement instead of in a finally clause:
\* it is skipped when an exception is on its way out
CleanupOnReturnOnly ==
    IF exc # "None"
    THEN UNCHANGED <<rm, ws_exists, files, dirs, faults>>
    ELSE IF ~ws_exists
    THEN /\ rm' = "absent"
         /\ UNCHANGED <<ws_exists, files, dirs, faults>>
    ELSE /\ rm' = "removed"
         /\ ws_exists' = FALSE
         /\ files' = NoFiles
         /\ dirs' = {}
         /\ UNCHANGED faults

\* if os.path.exists(self.temp_dir): shutil.rmtree(self.temp_dir, ignore_errors=True)
Cleanup ==
    IF ~ws_exists
    THEN /\ rm' = "absent"
         /\ UNCHANGED <<ws_exists, files, dirs, faults>>
    ELSE \/ /\ rm' = "removed"
            /\ ws_exists' = FALSE
            /\ files' = NoFiles
            /\ dirs' = {}
            /\ UNCHANGED faults
         \* the removal fails and ignore_errors=True swallows the error
         \/ /\ faults < MaxFaults
            /\ faults' = faults + 1
            /\ rm' = "failed"
            /\ UNCHANGED <<ws_exists, files, dirs>>

\* the finally clause runs, then analyze() returns result or raises exc
analyze_exit ==
    /\ pc = "finally"
    /\ Cleanup
    /\ pc' = "done"
    /\ UNCHANGED <<repo, repo_url, phase, exc, result, code_files, doc_files, todo,
                   prompts, code_prompts, doc_prompts, log, calls, snap, hist>>

Next ==
    \/ clone_repository
    \/ find_files
    \/ generate_file_prompts_call
    \/ generate_file_prompts_file
    \/ generate_file_prompts_return
    \/ generate_file_tree
    \/ analyze_exit

Spec == Init /\ [][Next]_vars

SpecScenario == InitScenario /\ [][Next]_vars

(***************************************************************************)
(* The claims.                                                             *)
(***************************************************************************)
\* generate_file_prompts has just returned to analyze(): prompts, hist and
\* snap are those of the finished call
CallReturned == (pc = "render" /\ phase = "doc") \/ pc = "tree"

CloneFailed ==
    \E e \in log : e.msg \in {"Git clone failed", "Failed to clone repository"}

\* C1, as claimed: once analyze() has returned or raised, the workspace
\* directory no longer exists, on every exit path.
C1_WorkspaceGoneOnEveryExit == pc = "done" => ~ws_exists

\* C1, amended: on every exit path of analyze() the finally clause has run
\* before analyze() returns or raises: the workspace directory no longer
\* exists unless its removal failed, and a failed removal is swallowed (the
\* call still returns its result or raises the error it already had).
C1_CleanupAttemptedOnEveryExit ==
    pc = "done" =>
        /\ rm \in {"removed", "absent", "failed"}
        /\ rm # "failed" => ~ws_exists
        /\ result.returned <=> exc = "None"

\* analyze() raised the clone's error and the workspace is gone
C1_Witness ==
    pc = "done" /\ exc = "CalledProcessError" /\ rm = "removed" /\ ~ws_exists

\* C2: when the clone fails, analyze() raises and yields no result; the clone
\* is not retried, classification, rendering and the tree build are never
\* started, and the cleanup has run before the error reaches the caller.
C2_CloneFailureIsFatal ==
    CloneFailed =>
        /\ pc \in {"finally", "done"}
        /\ exc \in {"CalledProcessError", "FileNotFoundError"}
        /\ ~result.returned
        /\ calls = [op \in Ops |-> IF op = "clone" THEN 1 ELSE 0]
        /\ code_files = EmptyBag /\ doc_files = EmptyBag
        /\ pc = "done" => rm # "none"

\* the clone of a URL without a scheme failed, the cleanup ran, analyze() raised
C2_Witness ==
    /\ pc = "done"
    /\ exc = "CalledProcessError"
    /\ Entry("warning", "may not be in a valid format", repo_url) \in log
    /\ rm = "removed"

\* the bucket the claim gives a file name: the binary suffixes win, then the
\* code suffixes, then the doc suffixes and names
C3_Bucket(name) ==
    IF \E x \in {".pdf", ".png", ".jpg", ".jpeg", ".gif", ".zip", ".tar", ".gz"} :
           EndsWith(name, x)
    THEN "ignored"
    ELSE IF \E x \in {".py", ".js", ".java", ".cpp", ".go", ".rs", ".swift", ".kt",
                      ".cs", ".toml"} : EndsWith(name, x)
    THEN "code"
    ELSE IF \E x \in {".md", ".rst", ".txt", "LICENSE", "CONTRIBUTING",
                      "CODE_OF_CONDUCT"} : EndsWith(name, x) \/ name = x
    THEN "doc"
    ELSE "ignored"

\* C3: find_files puts every file under the root, at any depth, into exactly
\* one bucket: once in the code list, once in the doc list, or in neither, with
\* the binary suffixes taking precedence; the lists hold nothing else.
C3_ClassificationIsTotal ==
    (pc = "render" /\ phase = "code") =>
        /\ \A p \in DOMAIN files :
              /\ CopiesIn(p, code_files) = (IF C3_Bucket(Name(p)) = "code" THEN 1 ELSE 0)
              /\ CopiesIn(p, doc_files) = (IF C3_Bucket(Name(p)) = "doc" THEN 1 ELSE 0)
        /\ BagToSet(code_files) \cup BagToSet(doc_files) \subseteq DOMAIN files

\* find_files has returned for a workspace holding docs/pkg.py.gz, which has
\* a code suffix in its name and ends in a binary suffix, beside a code file
\* and .git/HEAD
C3_Witness ==
    /\ pc = "render" /\ phase = "code"
    /\ <<"docs", "pkg.py.gz">> \in DOMAIN files
    /\ BagIn(<<"src", "main.py">>, code_files)
    /\ ~BagIn(<<"docs", "pkg.py.gz">>, code_files)

\* the value generate_file_prompts stores for an error whose text is kept
IsErrorValue(v) == Len(v) = 1 /\ StartsWith(v[1], "Error processing file: ")

\* C4: generate_file_prompts never raises, processes every file of its list,
\* and gives each file the outcome it would get if it were processed alone
\* (on the workspace as it was at the call, under the same tool behaviour).
C4_FilesAreIndependent ==
    CallReturned =>
        /\ exc = "None"
        /\ todo = EmptyBag
        /\ \A f \in DOMAIN hist :
              LET alone == RenderFile(snap, f, hist[f])
              IN /\ (Join(f) \in DOMAIN prompts) <=> alone.has
                 /\ alone.has => prompts[Join(f)] = alone.value

\* C5, as claimed: when the tool ran, exited 0 and wrote text to its output file,
\* the stored value is the content of that file exactly, and the output file no
\* longer exists after the call.
C5_OutputExactAndGone ==
    CallReturned =>
        \A f \in DOMAIN hist :
            (hist[f].tool = "exit0" /\ hist[f].wrote /\ Decodable(hist[f].out)) =>
                /\ Join(f) \in DOMAIN prompts
                /\ prompts[Join(f)] = hist[f].out
                /\ OutputFile(f) \notin DOMAIN files

\* C5, amended: when the tool exits 0 and leaves an output file that decodes
\* as UTF-8, the stored value is the text of that file as a text-mode read
\* returns it (every "\r\n" and "\r" is "\n"); and on every branch, for every
\* file processed, the output file no longer exists after the call unless its
\* deletion failed, which is logged as a warning.
C5_OutputDecodedAndCleaned ==
    CallReturned =>
        \A f \in DOMAIN hist :
            /\ (hist[f].tool = "exit0" /\ hist[f].wrote /\ Decodable(hist[f].out)) =>
                  /\ Join(f) \in DOMAIN prompts
                  /\ prompts[Join(f)] = ReadText(hist[f].out)
            /\ OutputFile(f) \in DOMAIN files =>
                  Entry("warning", "Failed to clean up temporary file", Join(f)) \in log

\* the tool wrote text with a "\r\n" for a file, the text was stored with "\n"
\* and the output file is gone
C5_Witness ==
    /\ CallReturned
    /\ \E f \in DOMAIN hist :
          /\ hist[f].tool = "exit0" /\ hist[f].out = <<"rendered", "CR", "LF">>
          /\ Join(f) \in DOMAIN prompts
          /\ prompts[Join(f)] = <<"rendered", "LF">>
          /\ OutputFile(f) \notin DOMAIN files

\* the file the step from the unprimed to the primed state has processed
Processed(f) == f \in DOMAIN hist' /\ f \notin DOMAIN hist

C9_NonZeroExitIsRecorded ==
    CallReturned =>
        \A f \in DOMAIN hist :
            hist[f].tool = "nonzero" =>
                /\ Join(f) \in DOMAIN prompts
                /\ IsErrorValue(prompts[Join(f)])

\* C10: every file that existed in the workspace before a call of
\* generate_file_prompts exists with the same content after it.
C10_OnlyOwnOutputsAreDeleted ==
    CallReturned =>
        \A p \in DOMAIN snap : p \in DOMAIN files /\ files[p] = snap[p]

\* the tree the claim expects for the scenario's workspace
C7_TreeAsClaimed ==
    ("src" :> DirNode("main.py" :> FileNode(temp_dir \o "/src/main.py")))
    @@ ("README.md" :> FileNode(temp_dir \o "/README.md"))

\* both files of the scenario were read as raw text (the renderer tool was not
\* found) and every directory of the workspace could be listed
C7_PlainRun ==
    /\ Entry("info", "Successfully read raw content", "src/main.py") \in log
    /\ Entry("info", "Successfully read raw content", "README.md") \in log
    /\ ~\E e \in log : e.msg = "Error building tree"

\* C7, as claimed, in the run the specification's scenario assumes (renderer
\* tool absent, no fault): for the scenario's workspace the filetree analyze()
\* returns is exactly {"src": {"main.py": <path>}, "README.md": <path>}, with
\* no entry for the binary file logo.png; the code map has exactly the key
\* src/main.py and the doc map exactly the key README.md.
C7_ScenarioResultAsClaimed ==
    (result.returned /\ C7_PlainRun) =>
        /\ result.filetree = C7_TreeAsClaimed
        /\ DOMAIN result.code = {"src/main.py"}
        /\ DOMAIN result.doc = {"README.md"}

\* C7, amended: for the scenario's workspace, when the renderer tool is absent,
\* both files are read as raw text and every directory can be listed, the
\* filetree is exactly {"src": {"main.py": <path>}, "README.md": <path>,
\* "logo.png": <path>}: the empty directory dist and the hidden .git are left
\* out, the binary file logo.png is listed; the code map has exactly the key
\* src/main.py and the doc map exactly the key README.md.
C7_ScenarioResult ==
    (result.returned /\ C7_PlainRun) =>
        /\ result.filetree =
               C7_TreeAsClaimed @@ ("logo.png" :> FileNode(temp_dir \o "/logo.png"))
        /\ DOMAIN result.code = {"src/main.py"}
        /\ DOMAIN result.doc = {"README.md"}

\* analyze() has assembled its result for the scenario's workspace after a
\* plain run
C7_Witness ==
    /\ result.returned
    /\ C7_PlainRun
    /\ DOMAIN snap = {<<"src", "main.py">>, <<"README.md">>, <<"logo.png">>, <<".git", "HEAD">>}
    /\ <<"dist">> \in dirs
    /\ "logo.png" \in DOMAIN result.filetree

RECURSIVE TreeOK(_)
\* at every depth: no key starts with "." and no directory is an empty mapping
TreeOK(t) ==
    \A n \in DOMAIN t :
        /\ ~StartsWith(n, ".")
        /\ t[n].kind = "dir" => (t[n].tree # <<>> /\ TreeOK(t[n].tree))

\* C8: the tree generate_file_tree returns has, at every depth, no key that
\* starts with "." and no directory mapped to an empty mapping, whatever the
\* layout and whichever directories fail to be listed.
C8_TreeShape == result.returned => TreeOK(result.filetree)

\* a tree was built for a workspace with the empty directory dist and with
\* src/pkg, which holds only the hidden file .keep: src is in the tree with
\* main.py and without pkg
C8_Witness ==
    /\ result.returned
    /\ pc = "finally"
    /\ <<"dist">> \in dirs
    /\ <<"src", "pkg", ".keep">> \in DOMAIN files
    /\ "src" \in DOMAIN result.filetree
    /\ DOMAIN result.filetree["src"].tree = {"main.py"}

====
